---- MODULE Spec2Model ----
(***************************************************************************)
(* Student Grade Analyzer (src/lecture_3/main.py).                         *)
(*                                                                         *)
(* The module-level list `students` is the roster.  The module is either   *)
(* run as a script, in which case main() drives the functions from the     *)
(* menu prompts, or imported, in which case its functions are called       *)
(* directly with arbitrary arguments.  Strings are sequences of one-       *)
(* character strings, so that str.capitalize, str.lower and int() are      *)
(* computed character by character.  An average (a Python float obtained   *)
(* from one division of small integers) is kept as the exact fraction      *)
(* [num, den]; fractions are compared by cross multiplication.             *)
(***************************************************************************)
EXTENDS Integers, Sequences, FiniteSets, TLC

\* Bounds of the model.
MaxStudents == 2
MaxGrades == 1

VARIABLES students, pc, student_name, grades, out, last

\* The profile script (src/lecture_2/main.py), a separate program: the
\* position in its main(), the validated User and the printed life stage.
VARIABLES profile_pc, user_profile, stage

analyzer_vars == <<students, pc, student_name, grades, out, last>>

profile_vars == <<profile_pc, user_profile, stage>>

vars == <<students, pc, student_name, grades, out, last,
          profile_pc, user_profile, stage>>

(***************************************************************************)
(* Characters and strings.                                                 *)
(***************************************************************************)
ToUpper ==
    ("a" :> "A") @@ ("b" :> "B") @@ ("c" :> "C") @@ ("d" :> "D") @@
    ("e" :> "E") @@ ("n" :> "N") @@ ("o" :> "O") @@ ("x" :> "X")

ToLower ==
    ("A" :> "a") @@ ("B" :> "b") @@ ("C" :> "c") @@ ("D" :> "d") @@
    ("E" :> "e") @@ ("N" :> "n") @@ ("O" :> "o") @@ ("X" :> "x")

DigitVal ==
    ("0" :> 0) @@ ("1" :> 1) @@ ("2" :> 2) @@ ("3" :> 3) @@ ("4" :> 4) @@
    ("5" :> 5) @@ ("6" :> 6) @@ ("7" :> 7) @@ ("8" :> 8) @@ ("9" :> 9)

Upper(c) == IF c \in DOMAIN ToUpper THEN ToUpper[c] ELSE c

Lower(c) == IF c \in DOMAIN ToLower THEN ToLower[c] ELSE c

\* str.lower()
LowerStr(s) == [i \in 1..Len(s) |-> Lower(s[i])]

\* The title-case form of a character.  "U+0149" stands for the character
\* LATIN SMALL LETTER N PRECEDED BY APOSTROPHE, whose title-case form is the
\* two characters "U+02BC" (MODIFIER LETTER APOSTROPHE, caseless) and N; it
\* is its own lower-case form.
TitleCase(c) == IF c = "U+0149" THEN <<"U+02BC", "N">> ELSE <<Upper(c)>>

\* str.capitalize(): first character title-cased, the rest lower-cased.
Capitalize(s) ==
    IF s = <<>> THEN <<>>
    ELSE TitleCase(s[1]) \o [i \in 1..(Len(s) - 1) |-> Lower(s[i + 1])]

RECURSIVE DecVal(_)
DecVal(s) ==
    IF s = <<>> THEN 0
    ELSE 10 * DecVal(SubSeq(s, 1, Len(s) - 1)) + DigitVal[s[Len(s)]]

IsDigits(s) == Len(s) > 0 /\ \A i \in 1..Len(s) : s[i] \in DOMAIN DigitVal

\* int(text): an optional sign followed by decimal digits; anything else
\* raises ValueError (ok = FALSE).
ParseInt(s) ==
    IF Len(s) > 0 /\ s[1] \in {"-", "+"}
    THEN LET body == SubSeq(s, 2, Len(s))
         IN  IF IsDigits(body)
             THEN [ok |-> TRUE,
                   val |-> IF s[1] = "-" THEN 0 - DecVal(body) ELSE DecVal(body)]
             ELSE [ok |-> FALSE, val |-> 0]
    ELSE IF IsDigits(s) THEN [ok |-> TRUE, val |-> DecVal(s)]
         ELSE [ok |-> FALSE, val |-> 0]

\* the range test accepting 101
InRange_upto101(g) == 0 <= g /\ g <= 101

\* 0 <= grade <= 100
InRange(g) == 0 <= g /\ g <= 100

(***************************************************************************)
(* What the user may type, and what a direct caller may pass.              *)
(***************************************************************************)
NameInputs == {<<"a">>, <<"A">>, <<"U+0149">>, <<"U+02BC", "n">>}

GradeInputs ==
    {<<"d", "o", "n", "e">>, <<"D", "O", "N", "E">>, <<"0">>,
     <<"1", "0", "0">>, <<"1", "0", "1">>, <<"-", "1">>, <<"a", "b", "c">>}

ChoiceInputs == {<<"1">>, <<"2">>, <<"3">>, <<"4">>, <<"5">>, <<"x">>, <<>>}

DirectGradeLists == {<<>>, <<50>>, <<100>>, <<101>>, <<0, 100>>, <<101, -1>>}

(***************************************************************************)
(* Output of one step: nothing, a printed message, a report, the top       *)
(* performer, or an exception that propagates.                             *)
(***************************************************************************)
Nothing == [kind |-> "none"]

Msg(text) == [kind |-> "msg", text |-> text]

Raise(exc, text) == [kind |-> "raise", exc |-> exc, text |-> text]

(***************************************************************************)
(* The roster operations.                                                  *)
(***************************************************************************)
Names(S) == {S[i].name : i \in 1..Len(S)}

is_student_exists(S, name) == Capitalize(name) \in Names(S)

\* add_new_student without the existence check
add_new_student_unchecked(S, name) ==
    [students |-> Append(S, [name |-> name, grades |-> <<>>]), out |-> Nothing]

add_new_student(S, name) ==
    IF is_student_exists(S, name)
    THEN [students |-> S, out |-> Msg("Student already exists")]
    ELSE [students |-> Append(S, [name |-> name, grades |-> <<>>]),
          out |-> Nothing]

\* add_grades creating the record it does not find
add_grades_upsert(S, name, gs) ==
    LET hits == {i \in 1..Len(S) : S[i].name = name}
    IN  IF hits = {}
        THEN [students |-> Append(S, [name |-> name, grades |-> gs]), out |-> Nothing]
        ELSE LET k == CHOOSE i \in hits : \A j \in hits : i <= j
             IN  [students |-> [S EXCEPT ![k].grades = gs], out |-> Nothing]

\* add_grades extending the stored list instead of assigning it
add_grades_extend(S, name, gs) ==
    LET hits == {i \in 1..Len(S) : S[i].name = name}
    IN  IF hits = {}
        THEN [students |-> S, out |-> Raise("ValueError", "Student does not exist")]
        ELSE LET k == CHOOSE i \in hits : \A j \in hits : i <= j
             IN  [students |-> [S EXCEPT ![k].grades = S[k].grades \o gs],
                  out |-> Nothing]

\* add_grades clamping every value into 0..100
add_grades_clamped(S, name, gs) ==
    LET hits == {i \in 1..Len(S) : S[i].name = name}
        clamp(g) == IF g > 100 THEN 100 ELSE IF g < 0 THEN 0 ELSE g
    IN  IF hits = {}
        THEN [students |-> S, out |-> Raise("ValueError", "Student does not exist")]
        ELSE LET k == CHOOSE i \in hits : \A j \in hits : i <= j
             IN  [students |-> [S EXCEPT ![k].grades = [i \in 1..Len(gs) |-> clamp(gs[i])]],
                  out |-> Nothing]

add_grades(S, name, gs) ==
    LET hits == {i \in 1..Len(S) : S[i].name = name}
    IN  IF hits = {}
        THEN [students |-> S, out |-> Raise("ValueError", "Student does not exist")]
        ELSE LET k == CHOOSE i \in hits : \A j \in hits : i <= j
             IN  [students |-> [S EXCEPT ![k].grades = gs], out |-> Nothing]

(***************************************************************************)
(* Fractions: sum(grades) / len(grades) and the arithmetic on averages.    *)
(***************************************************************************)
Frac(n, d) == [num |-> n, den |-> d]

LessQ(a, b) == a.num * b.den < b.num * a.den

EqQ(a, b) == a.num * b.den = b.num * a.den

AddQ(a, b) == Frac(a.num * b.den + b.num * a.den, a.den * b.den)

RECURSIVE Sum(_)
Sum(s) == IF s = <<>> THEN 0 ELSE s[1] + Sum(Tail(s))

RECURSIVE SumQ(_)
SumQ(s) == IF s = <<>> THEN Frac(0, 1) ELSE AddQ(s[1], SumQ(Tail(s)))

\* min(all_grades), max(all_grades) of a non-empty list
Min(s) == CHOOSE x \in {s[i] : i \in 1..Len(s)} : \A j \in 1..Len(s) : x <= s[j]

Max(s) == CHOOSE x \in {s[i] : i \in 1..Len(s)} : \A j \in 1..Len(s) : x >= s[j]

\* an average of 0 for a student without grades
Average_zero_if_empty(gs) ==
    IF Len(gs) = 0 THEN <<Frac(0, 1)>> ELSE <<Frac(Sum(gs), Len(gs))>>

\* One student's average; <<>> stands for the ZeroDivisionError branch.
Average(gs) == IF Len(gs) = 0 THEN <<>> ELSE <<Frac(Sum(gs), Len(gs))>>

(***************************************************************************)
(* show_report: the loop over the roster accumulates the printed lines,    *)
(* all_grades and all_average_grades; the two summaries follow.            *)
(***************************************************************************)
RECURSIVE ReportLoop(_, _, _)
ReportLoop(S, i, acc) ==
    IF i > Len(S) THEN acc
    ELSE LET avg == Average(S[i].grades)
         IN  ReportLoop(S, i + 1,
                 [lines |-> Append(acc.lines, [name |-> S[i].name, average |-> avg]),
                  all_grades |-> acc.all_grades \o S[i].grades,
                  all_average_grades |-> acc.all_average_grades \o avg])

\* show_report with the flat mean of all grades as the overall figure
show_report_flat_mean(S) ==
    LET acc == ReportLoop(S, 1,
                   [lines |-> <<>>, all_grades |-> <<>>, all_average_grades |-> <<>>])
    IN  [kind |-> "report",
         lines |-> acc.lines,
         minmax |-> IF acc.all_grades # <<>>
                    THEN <<[max |-> Max(acc.all_grades), min |-> Min(acc.all_grades)]>>
                    ELSE <<>>,
         overall |-> IF acc.all_average_grades # <<>>
                     THEN <<Frac(Sum(acc.all_grades), Len(acc.all_grades))>>
                     ELSE <<>>]

show_report(S) ==
    LET acc == ReportLoop(S, 1,
                   [lines |-> <<>>, all_grades |-> <<>>, all_average_grades |-> <<>>])
    IN  [kind |-> "report",
         lines |-> acc.lines,
         minmax |-> IF acc.all_grades # <<>>
                    THEN <<[max |-> Max(acc.all_grades), min |-> Min(acc.all_grades)]>>
                    ELSE <<>>,
         overall |-> IF acc.all_average_grades # <<>>
                     THEN LET t == SumQ(acc.all_average_grades)
                          IN  <<Frac(t.num, t.den * Len(acc.all_average_grades))>>
                     ELSE <<>>]

(***************************************************************************)
(* find_top_performer: the students with grades, then max() by average.    *)
(* max() keeps the first item and replaces it only by a strictly greater   *)
(* one.                                                                    *)
(***************************************************************************)
RECURSIVE ValidStudents(_, _)
ValidStudents(S, i) ==
    IF i > Len(S) THEN <<>>
    ELSE IF S[i].grades # <<>>
         THEN <<[name |-> S[i].name,
                 average |-> Frac(Sum(S[i].grades), Len(S[i].grades))]>>
              \o ValidStudents(S, i + 1)
         ELSE ValidStudents(S, i + 1)

\* max() replacing the kept item by an equal one as well
RECURSIVE MaxByAverage_last(_, _, _)
MaxByAverage_last(v, i, best) ==
    IF i > Len(v) THEN best
    ELSE MaxByAverage_last(v, i + 1,
             IF LessQ(v[i].average, best.average) THEN best ELSE v[i])

RECURSIVE MaxByAverage(_, _, _)
MaxByAverage(v, i, best) ==
    IF i > Len(v) THEN best
    ELSE MaxByAverage(v, i + 1,
             IF LessQ(best.average, v[i].average) THEN v[i] ELSE best)

\* find_top_performer testing the roster, not valid_students, for emptiness
find_top_performer_roster_test(S) ==
    LET valid_students == ValidStudents(S, 1)
    IN  IF S = <<>>
        THEN Msg("No top student found. Either no students added or no grades available.")
        ELSE IF valid_students = <<>>
        THEN Raise("ValueError", "max() arg is an empty sequence")
        ELSE LET top_student == MaxByAverage(valid_students, 2, valid_students[1])
             IN  [kind |-> "top", name |-> top_student.name,
                  average |-> top_student.average]

find_top_performer(S) ==
    LET valid_students == ValidStudents(S, 1)
    IN  IF valid_students = <<>>
        THEN Msg("No top student found. Either no students added or no grades available.")
        ELSE LET top_student == MaxByAverage(valid_students, 2, valid_students[1])
             IN  [kind |-> "top", name |-> top_student.name,
                  average |-> top_student.average]

(***************************************************************************)
(* Initial state: `students` is empty.  The module is run as a script      *)
(* (main() prompts at the menu) or imported (pc = "idle": the functions    *)
(* are called directly).  student_name and grades are main's locals.       *)
(***************************************************************************)
Init ==
    /\ students = <<>>
    /\ pc \in {"menu", "idle"}
    /\ student_name = <<>>
    /\ grades = <<>>
    /\ out = Nothing
    /\ last = "start"
    /\ profile_pc = "start"
    /\ user_profile = <<>>
    /\ stage = "none"

Prompts == {"menu", "add_name", "grade_name", "grades"}

(***************************************************************************)
(* user_input: a KeyboardInterrupt at a prompt prints a message and the    *)
(* same prompt is shown again.  (Each retry is a nested call of            *)
(* user_input; the depth of that recursion is not part of the state.)      *)
(***************************************************************************)
Interrupt ==
    /\ pc \in Prompts
    /\ out' = Msg("Use menu for exit")
    /\ last' = "user_input"
    /\ UNCHANGED <<students, pc, student_name, grades>>
    /\ UNCHANGED profile_vars

\* input() raises EOFError at the end of the input; user_input catches
\* ValueError and KeyboardInterrupt only, and main catches nothing.
EndOfInput ==
    /\ pc \in Prompts
    /\ pc' = "crashed"
    /\ out' = Raise("EOFError", "EOF when reading a line")
    /\ last' = "user_input"
    /\ UNCHANGED <<students, student_name, grades>>
    /\ UNCHANGED profile_vars

(***************************************************************************)
(* main: the menu.  The choice is read through user_input, which           *)
(* capitalizes it.                                                         *)
(***************************************************************************)
ChooseAddStudent ==
    /\ pc = "menu"
    /\ \E c \in ChoiceInputs : Capitalize(c) = <<"1">>
    /\ pc' = "add_name"
    /\ out' = Nothing
    /\ last' = "main"
    /\ UNCHANGED <<students, student_name, grades>>
    /\ UNCHANGED profile_vars

ChooseAddGrades ==
    /\ pc = "menu"
    /\ \E c \in ChoiceInputs : Capitalize(c) = <<"2">>
    /\ pc' = "grade_name"
    /\ out' = Nothing
    /\ last' = "main"
    /\ UNCHANGED <<students, student_name, grades>>
    /\ UNCHANGED profile_vars

ChooseReport ==
    /\ pc = "menu"
    /\ \E c \in ChoiceInputs : Capitalize(c) = <<"3">>
    /\ out' = show_report(students)
    /\ last' = "show_report"
    /\ UNCHANGED <<students, pc, student_name, grades>>
    /\ UNCHANGED profile_vars

ChooseTop ==
    /\ pc = "menu"
    /\ \E c \in ChoiceInputs : Capitalize(c) = <<"4">>
    /\ out' = find_top_performer(students)
    /\ last' = "find_top_performer"
    /\ UNCHANGED <<students, pc, student_name, grades>>
    /\ UNCHANGED profile_vars

ChooseExit ==
    /\ pc = "menu"
    /\ \E c \in ChoiceInputs : Capitalize(c) = <<"5">>
    /\ pc' = "exit"
    /\ out' = Nothing
    /\ last' = "main"
    /\ UNCHANGED <<students, student_name, grades>>
    /\ UNCHANGED profile_vars

ChooseInvalid ==
    /\ pc = "menu"
    /\ \E c \in ChoiceInputs :
          Capitalize(c) \notin {<<"1">>, <<"2">>, <<"3">>, <<"4">>, <<"5">>}
    /\ out' = Msg("Invalid input. Please enter a number 1-5.")
    /\ last' = "main"
    /\ UNCHANGED <<students, pc, student_name, grades>>
    /\ UNCHANGED profile_vars

\* case "1": the name is read through user_input, then add_new_student.
EnterNameToAdd(raw) ==
    /\ pc = "add_name"
    /\ LET name == Capitalize(raw)
           r == add_new_student(students, name)
       IN  /\ Len(r.students) <= MaxStudents
           /\ student_name' = name
           /\ students' = r.students
           /\ out' = r.out
    /\ pc' = "menu"
    /\ last' = "add_new_student"
    /\ UNCHANGED grades
    /\ UNCHANGED profile_vars

\* case "2": the name is read, then checked with is_student_exists.
EnterNameForGrades(raw) ==
    /\ pc = "grade_name"
    /\ LET name == Capitalize(raw)
       IN  /\ student_name' = name
           /\ IF ~is_student_exists(students, name)
              THEN /\ out' = Msg("Student does not exist")
                   /\ pc' = "menu"
                   /\ UNCHANGED grades
              ELSE /\ out' = Nothing
                   /\ pc' = "grades"
                   /\ grades' = <<>>
    /\ last' = "is_student_exists"
    /\ UNCHANGED students
    /\ UNCHANGED profile_vars

\* input_grades: one pass of its loop.  On "done" the list is returned and
\* main calls add_grades; an exception of add_grades leaves main.
EnterGrade(raw) ==
    /\ pc = "grades"
    /\ LET grade_input == Capitalize(raw)
           p == ParseInt(grade_input)
       IN  IF LowerStr(grade_input) = <<"d", "o", "n", "e">>
           THEN LET r == add_grades(students, student_name, grades)
                IN  /\ students' = r.students
                    /\ out' = r.out
                    /\ pc' = IF r.out.kind = "raise" THEN "crashed" ELSE "menu"
                    /\ last' = "add_grades"
                    /\ UNCHANGED grades
           ELSE /\ IF p.ok
                   THEN IF InRange(p.val)
                        THEN /\ Len(grades) < MaxGrades
                             /\ grades' = Append(grades, p.val)
                             /\ out' = Nothing
                        ELSE /\ out' = Msg("Grade must be between 0 and 100. Please try again.")
                             /\ UNCHANGED grades
                   ELSE /\ out' = Msg("Invalid grade. Please enter a number 0-100 or 'done'")
                        /\ UNCHANGED grades
                /\ last' = "input_grades"
                /\ UNCHANGED <<students, pc>>
    /\ UNCHANGED student_name
    /\ UNCHANGED profile_vars

(***************************************************************************)
(* The functions called directly on the imported module.                   *)
(***************************************************************************)
CallAddNewStudent(name) ==
    /\ pc = "idle"
    /\ LET r == add_new_student(students, name)
       IN  /\ Len(r.students) <= MaxStudents
           /\ students' = r.students
           /\ out' = r.out
    /\ last' = "add_new_student"
    /\ UNCHANGED <<pc, student_name, grades>>
    /\ UNCHANGED profile_vars

CallAddGrades(name, gs) ==
    /\ pc = "idle"
    /\ LET r == add_grades(students, name, gs)
       IN  /\ students' = r.students
           /\ out' = r.out
    /\ last' = "add_grades"
    /\ UNCHANGED <<pc, student_name, grades>>
    /\ UNCHANGED profile_vars

CallShowReport ==
    /\ pc = "idle"
    /\ out' = show_report(students)
    /\ last' = "show_report"
    /\ UNCHANGED <<students, pc, student_name, grades>>
    /\ UNCHANGED profile_vars

CallFindTopPerformer ==
    /\ pc = "idle"
    /\ out' = find_top_performer(students)
    /\ last' = "find_top_performer"
    /\ UNCHANGED <<students, pc, student_name, grades>>
    /\ UNCHANGED profile_vars

Next ==
    \/ Interrupt
    \/ EndOfInput
    \/ ChooseAddStudent
    \/ ChooseAddGrades
    \/ ChooseReport
    \/ ChooseTop
    \/ ChooseExit
    \/ ChooseInvalid
    \/ \E raw \in NameInputs : EnterNameToAdd(raw)
    \/ \E raw \in NameInputs : EnterNameForGrades(raw)
    \/ \E raw \in GradeInputs : EnterGrade(raw)
    \/ \E name \in NameInputs : CallAddNewStudent(name)
    \/ \E name \in NameInputs, gs \in DirectGradeLists : CallAddGrades(name, gs)
    \/ CallShowReport
    \/ CallFindTopPerformer

Spec == Init /\ [][Next]_vars

(***************************************************************************)
(* The profile script, src/lecture_2/main.py.  The birth year is taken as  *)
(* the integer that validate_year's int() yields; name and hobbies play no *)
(* part in the life stage and are left out.                                *)
(***************************************************************************)
BirthYearGt == 1900

BirthYearLe == 2025

\* the birth years tried, one beyond each end of the accepted range
BirthYears == (BirthYearGt - 1)..(BirthYearLe + 1)

\* datetime.now().year when the script runs
CurrentYears == {2025, 2026}

\* generate_profile: the first case whose guard holds; "None" when the match
\* statement falls through.
generate_profile(age) ==
    IF 0 < age /\ age <= 12 THEN "Child"
    ELSE IF 13 < age /\ age <= 19 THEN "Teenager"
    ELSE IF 20 >= age THEN "Adult"
    ELSE "None"

ProfileInit ==
    /\ profile_pc = "start"
    /\ user_profile = <<>>
    /\ stage = "none"
    /\ students = <<>>
    /\ pc = "idle"
    /\ student_name = <<>>
    /\ grades = <<>>
    /\ out = Nothing
    /\ last = "start"

\* User(...): birth_year must satisfy gt=1900, le=2025; age is the current
\* year minus the birth year.
CreateUser(birth_year, current_year) ==
    /\ profile_pc = "start"
    /\ IF birth_year > BirthYearGt /\ birth_year <= BirthYearLe
       THEN /\ user_profile' = <<[birth_year |-> birth_year,
                                  age |-> current_year - birth_year]>>
            /\ profile_pc' = "created"
       ELSE /\ profile_pc' = "ValidationError"
            /\ UNCHANGED user_profile
    /\ UNCHANGED stage
    /\ UNCHANGED analyzer_vars

\* the summary is printed with generate_profile(age=user_profile.age)
PrintSummary ==
    /\ profile_pc = "created"
    /\ stage' = generate_profile(user_profile[1].age)
    /\ profile_pc' = "printed"
    /\ UNCHANGED user_profile
    /\ UNCHANGED analyzer_vars

ProfileNext ==
    \/ \E birth_year \in BirthYears, current_year \in CurrentYears :
          CreateUser(birth_year, current_year)
    \/ PrintSummary

ProfileSpec == ProfileInit /\ [][ProfileNext]_vars

(***************************************************************************)
(* Properties.                                                             *)
(***************************************************************************)
InScript == pc # "idle"

\* str.casefold(): every character lower-cased, "U+0149" folded to the
\* apostrophe and n
RECURSIVE CaseFold(_)
CaseFold(s) ==
    IF s = <<>> THEN <<>>
    ELSE (IF s[1] = "U+0149" THEN <<"U+02BC", "n">> ELSE <<Lower(s[1])>>)
         \o CaseFold(Tail(s))

\* two names are equal case-insensitively
SameNoCase(a, b) == CaseFold(a) = CaseFold(b)

NoCaseDuplicates(S) ==
    \A i, j \in 1..Len(S) : i # j => ~SameNoCase(S[i].name, S[j].name)

\* C1: run from the menu, the roster never holds two records whose names
\* are equal case-insensitively; entering a name that differs
\* case-insensitively from every record appends one record with no grades
\* and keeps the others, and entering any case variant of a recorded name
\* leaves the roster as it is and prints "Student already exists".
C1_UniqueNames ==
    [][InScript =>
        /\ NoCaseDuplicates(students')
        /\ \A raw \in NameInputs :
              EnterNameToAdd(raw) =>
                 IF \E i \in 1..Len(students) : SameNoCase(students[i].name, raw)
                 THEN /\ students' = students
                      /\ out' = Msg("Student already exists")
                 ELSE /\ Len(students') = Len(students) + 1
                      /\ SubSeq(students', 1, Len(students)) = students
                      /\ SameNoCase(students'[Len(students')].name, raw)
                      /\ students'[Len(students')].grades = <<>>
                      /\ out' = Nothing]_vars

\* a duplicate was reported while two distinct records, one with grades, exist
C1_Witness ==
    /\ pc = "menu"
    /\ last = "add_new_student"
    /\ out = Msg("Student already exists")
    /\ Len(students) = 2
    /\ \E i \in 1..2 : students[i].grades # <<>>

\* C2: add_grades with a name that no record carries raises ValueError
\* "Student does not exist" and leaves the roster as it is; at the menu,
\* choice 2 with a name that no record carries case-insensitively prints
\* "Student does not exist", returns to the menu without the grade prompt and
\* leaves the roster as it is.
C2_UnknownStudent ==
    [][/\ \A n \in NameInputs, gs \in DirectGradeLists :
             (CallAddGrades(n, gs) /\ \A i \in 1..Len(students) : students[i].name # n)
                => /\ students' = students
                   /\ out' = Raise("ValueError", "Student does not exist")
       /\ \A raw \in NameInputs :
             (EnterNameForGrades(raw)
                 /\ \A i \in 1..Len(students) : ~SameNoCase(students[i].name, raw))
                => /\ students' = students
                   /\ out' = Msg("Student does not exist")
                   /\ pc' = "menu"
                   /\ grades' = grades]_vars

\* add_grades raised on a roster that holds a record with grades
C2_Witness ==
    /\ pc = "idle"
    /\ last = "add_grades"
    /\ out = Raise("ValueError", "Student does not exist")
    /\ \E i \in 1..Len(students) : students[i].grades # <<>>

BadGradeInputs == {<<"1", "0", "1">>, <<"-", "1">>, <<"a", "b", "c">>}

AllInRange(gs) == \A k \in 1..Len(gs) : gs[k] \in 0..100

\* C3: run from the menu, every grade of every record, and every grade
\* collected so far, is an integer of 0..100; the inputs 101, -1 and abc
\* print a message, add nothing and leave the grade prompt open.
C3_GradesInRange ==
    [][InScript =>
        /\ \A i \in 1..Len(students') : AllInRange(students'[i].grades)
        /\ AllInRange(grades')
        /\ \A raw \in BadGradeInputs :
              EnterGrade(raw) =>
                 /\ grades' = grades
                 /\ students' = students
                 /\ out'.kind = "msg"
                 /\ pc' = "grades"]_vars

\* an out-of-range grade was refused after a grade had been accepted
C3_Witness ==
    /\ pc = "grades"
    /\ last = "input_grades"
    /\ out = Msg("Grade must be between 0 and 100. Please try again.")
    /\ grades # <<>>
    /\ \E i \in 1..Len(students) : students[i].grades # <<>>

HasGrades(S) == {i \in 1..Len(S) : S[i].grades # <<>>}

\* the records with at least one grade, in roster order
WithGrades(S) == SelectSeq(S, LAMBDA r : r.grades # <<>>)

\* C4: a report lists every student, a student without grades with the
\* average N/A and no exception; the min/max line and the overall average
\* are those of the roster without the students that have no grades, and
\* both lines are absent exactly when no student has a grade.
C4_EmptyGradesInReport ==
    last = "show_report" =>
        /\ out.kind = "report"
        /\ Len(out.lines) = Len(students)
        /\ \A i \in 1..Len(students) :
              /\ out.lines[i].name = students[i].name
              /\ (students[i].grades = <<>> <=> out.lines[i].average = <<>>)
        /\ out.minmax = show_report(WithGrades(students)).minmax
        /\ out.overall = show_report(WithGrades(students)).overall
        /\ (HasGrades(students) = {} <=> out.minmax = <<>>)
        /\ (HasGrades(students) = {} <=> out.overall = <<>>)

\* a report over a roster with one graded and one ungraded student
C4_Witness ==
    /\ last = "show_report"
    /\ out.kind = "report"
    /\ \E i, j \in 1..Len(students) :
          /\ students[i].grades = <<>>
          /\ students[j].grades # <<>>
          /\ out.lines[i].average = <<>>
    /\ out.minmax # <<>>

AvgOf(r) == Frac(Sum(r.grades), Len(r.grades))

ExampleRoster ==
    <<[name |-> <<"A">>, grades |-> <<90>>],
      [name |-> <<"B">>, grades |-> <<95>>],
      [name |-> <<"C">>, grades |-> <<>>]>>

\* C5: the top performer is a student with at least one grade whose average
\* sum/len no graded student exceeds, and every graded student before it in
\* the roster has a strictly smaller average; on {A:[90], B:[95], C:[]} it
\* is B with 95.
C5_TopPerformer ==
    /\ find_top_performer(ExampleRoster)
          = [kind |-> "top", name |-> <<"B">>, average |-> Frac(95, 1)]
    /\ out.kind = "top" =>
          \E i \in HasGrades(students) :
             /\ out.name = students[i].name
             /\ EqQ(out.average, AvgOf(students[i]))
             /\ \A j \in HasGrades(students) :
                   /\ ~LessQ(AvgOf(students[i]), AvgOf(students[j]))
                   /\ j < i => LessQ(AvgOf(students[j]), AvgOf(students[i]))

\* two graded students share the maximal average and the first one is named
C5_Witness ==
    /\ out.kind = "top"
    /\ Len(students) = 2
    /\ HasGrades(students) = {1, 2}
    /\ students[1].name # students[2].name
    /\ students[1].grades # students[2].grades
    /\ EqQ(AvgOf(students[1]), AvgOf(students[2]))
    /\ out.name = students[1].name

NoTopStudent ==
    Msg("No top student found. Either no students added or no grades available.")

\* C6: find_top_performer prints the "No top student found" message exactly
\* when no student has a grade, and names a top performer otherwise.
C6_NoTopStudent ==
    last = "find_top_performer" =>
        /\ out = NoTopStudent <=> \A i \in 1..Len(students) : students[i].grades = <<>>
        /\ out # NoTopStudent => out.kind = "top"

\* no top student on a roster that has students, none with a grade
C6_Witness ==
    /\ last = "find_top_performer"
    /\ out = NoTopStudent
    /\ Len(students) = 2

\* T is S with the grades of the first record named n set to gs
Replaced(S, T, n, gs) ==
    /\ Len(T) = Len(S)
    /\ \E k \in 1..Len(S) :
          /\ S[k].name = n
          /\ \A j \in 1..(k - 1) : S[j].name # n
          /\ T[k] = [name |-> n, grades |-> gs]
          /\ \A j \in 1..Len(S) : j # k => T[j] = S[j]

C8_AddNormalizes ==
    pc = "idle" =>
        /\ \A i \in 1..Len(students) : students[i].name = Capitalize(students[i].name)
        /\ NoCaseDuplicates(students)

OutOfRange(gs) == \E k \in 1..Len(gs) : gs[k] \notin 0..100

AllGradeValues(S) == UNION {{S[i].grades[k] : k \in 1..Len(S[i].grades)} : i \in 1..Len(S)}

RECURSIVE SumOfAverages(_, _)
SumOfAverages(S, I) ==
    IF I = {} THEN Frac(0, 1)
    ELSE LET i == CHOOSE x \in I : TRUE
         IN  AddQ(AvgOf(S[i]), SumOfAverages(S, I \ {i}))

\* overall * count = the sum of the students' averages
IsMeanOfAverages(q, S) ==
    LET t == SumOfAverages(S, HasGrades(S))
    IN  EqQ(Frac(q.num * Cardinality(HasGrades(S)), q.den), t)

FlatMean(S) ==
    LET all == ReportLoop(S, 1,
                  [lines |-> <<>>, all_grades |-> <<>>, all_average_grades |-> <<>>]).all_grades
    IN  Frac(Sum(all), Len(all))

\* C10: in a report over a roster with grades, min and max are the least
\* and the greatest single grade of all students, and the overall figure is
\* the sum of the graded students' averages divided by their number.
C10_ReportAggregates ==
    (last = "show_report" /\ HasGrades(students) # {}) =>
        /\ Len(out.minmax) = 1
        /\ out.minmax[1].min \in AllGradeValues(students)
        /\ out.minmax[1].max \in AllGradeValues(students)
        /\ \A g \in AllGradeValues(students) :
              out.minmax[1].min <= g /\ g <= out.minmax[1].max
        /\ Len(out.overall) = 1
        /\ IsMeanOfAverages(out.overall[1], students)

\* a report whose overall figure differs from the flat mean of all grades
C10_Witness ==
    /\ last = "show_report"
    /\ Cardinality(HasGrades(students)) = 2
    /\ out.minmax[1].min < out.minmax[1].max
    /\ ~EqQ(out.overall[1], FlatMean(students))

\* C11: the loop of main is left only by menu choice 5: no step raises an
\* error out of it, and every step that prints a message (duplicate add,
\* unknown name, refused grade, unrecognized choice, keyboard interrupt)
\* ends at a prompt with the roster as it was.
C11_LoopEndsOnlyOnExit ==
    [][InScript =>
        /\ (pc \in Prompts /\ pc' \notin Prompts) => ChooseExit
        /\ out'.kind # "raise"
        /\ out'.kind = "msg" => (pc' \in Prompts /\ students' = students)]_vars

\* C12: run from the menu, whenever is_student_exists has accepted the name
\* (the grade prompt is open) a record carries exactly that name, and the
\* ValueError of add_grades is never raised.
C12_ExistsAgreesWithAddGrades ==
    InScript =>
        /\ pc = "grades" => student_name \in Names(students)
        /\ ~(out.kind = "raise" /\ out = Raise("ValueError", "Student does not exist"))

\* C13: the life stage printed for a validated user is Child for the ages
\* 1..12, Teenager for 13..19 and Adult from 20 on, and is always one of
\* the three labels.
C13_LifeStage ==
    profile_pc = "printed" =>
        LET age == user_profile[1].age
        IN  /\ age \in 1..12 => stage = "Child"
            /\ age \in 13..19 => stage = "Teenager"
            /\ age >= 20 => stage = "Adult"
            /\ stage \in {"Child", "Teenager", "Adult"}

====
